---------------------------- MODULE Spec2Model ----------------------------
(***************************************************************************)
(* A model of codec-man's src/main.rs: the control thread (App::update),   *)
(* the output-stream callback and the input-stream callback, the four      *)
(* bounded channels between them, and the three buffer transforms          *)
(* (Encode, Decode, Process).                                              *)
(*                                                                         *)
(* Samples.  A sample is an f32.  The model writes a sample as an integer  *)
(* count of the unit 1 / (I16Max * Quantum) = 1 / (32767 * 16), so that    *)
(* both scalings of the codec are integer operations:                      *)
(*   - Encode multiplies by i16::MAX: a sample s has the scaled value      *)
(*     s / Quantum, that is s sixteenths of one i16 step;                  *)
(*   - Decode divides a delta d by i16::MAX: d / 32767 is d * Quantum.     *)
(* The model's arithmetic is exact: the rounding of `as f32` (a relative   *)
(* 2^-24, under 0.004 of an i16 step for a sample within +-2.0) is not     *)
(* represented.  The samples a specification starts from differ by a       *)
(* non-integer number of i16 steps (or not at all), so that this rounding  *)
(* cannot change a delta Encode truncates.  Samples are finite.            *)
(***************************************************************************)
EXTENDS Integers, Sequences, FiniteSets, TLC

(***************************************************************************)
(* Program constants.                                                      *)
(***************************************************************************)
Capacity == 16          \* mpsc::sync_channel(16), all four channels
I16Max == 32767         \* i16::MAX
I16Min == -32768        \* i16::MIN, the low end of the saturating `as i16`
I8Max == 127            \* i8::MAX
I8Min == -128           \* i8::MIN
Quantum == 2^4          \* sample units per i16 step

(***************************************************************************)
(* Bounds of the model.                                                    *)
(***************************************************************************)
MaxLength == 2          \* largest value of the Length knob (Sin)
MaxFrame == 2           \* longest frame the output device asks for
MaxSubmits == 2         \* Submit clicks in Spec
MaxOutTicks == 2        \* output-callback invocations in Spec
MaxInTicks == 1         \* input-callback invocations in Spec
MaxToggles == 1         \* Recording checkbox changes in Spec
MaxOps == 2             \* buffer-editing clicks (Sin .. Load) in Spec
MaxSnapshots == 1       \* Save clicks in Spec
MaxCodecLen == 3        \* longest buffer SpecCodec starts from
MaxDecodeLen == 3       \* longest byte stream SpecDecode starts from
MaxProcLen == 3         \* longest buffer SpecProc starts from

(***************************************************************************)
(* Sequences.                                                              *)
(***************************************************************************)
Min(a, b) == IF a < b THEN a ELSE b
Max(a, b) == IF a > b THEN a ELSE b

Take(s, n) == SubSeq(s, 1, Min(n, Len(s)))
Drop(s, n) == SubSeq(s, Min(n, Len(s)) + 1, Len(s))
Last(s) == s[Len(s)]
Zeros(n) == [i \in 1..n |-> 0]
IsPrefix(p, s) == Len(p) <= Len(s) /\ SubSeq(s, 1, Len(p)) = p

\* Vec::extend / VecDeque::extend applied to each item of a drained channel.
RECURSIVE Flatten(_)
Flatten(ss) == IF ss = <<>> THEN <<>> ELSE Head(ss) \o Flatten(Tail(ss))

(***************************************************************************)
(* Integer conversions of Rust.                                            *)
(***************************************************************************)
\* Division that truncates toward zero: what `as i16` does to the fraction.
TruncDiv(a, b) == IF a >= 0 THEN a \div b ELSE -((-a) \div b)

\* f64 `as i16`: truncate, then saturate at the ends of i16.
AsI16(num, den) == Max(I16Min, Min(I16Max, TruncDiv(num, den)))

\* i16 / i8 `as u8`: the low eight bits.
AsU8(d) == d % 256

\* u8 `as i8`.
AsI8(b) == IF b > I8Max THEN b - 256 ELSE b

\* i16::to_le_bytes.
ToLeBytes(d) == LET u == d % 65536 IN <<u % 256, u \div 256>>

\* i16::from_le_bytes.
FromLeBytes(b, b2) == LET u == b + 256 * b2 IN IF u > I16Max THEN u - 65536 ELSE u

(***************************************************************************)
(* Encode (main.rs 160-185).                                               *)
(***************************************************************************)
\* The delta of one sample against the previous raw sample.
Delta(s, last) == AsI16(s - last, Quantum)

\* Mutant of IsShort: both comparisons inclusive.
IsShortInclusive(d) == d <= I8Max /\ I8Min <= d

\* Whether a delta takes the one-byte branch.
IsShort(d) == d < I8Max /\ I8Min < d

\* Mutant of ShortUnit: the tag bit is not forced.
ShortUnitUntagged(d) == <<AsU8(d)>>

\* The short branch: low byte, made even.
ShortUnit(d) == LET b == AsU8(d) IN <<IF b % 2 = 1 THEN b - 1 ELSE b>>

\* The long branch: both bytes, the first made odd.
LongUnit(d) ==
    LET bytes == ToLeBytes(d)
    IN <<IF bytes[1] % 2 = 0 THEN bytes[1] + 1 ELSE bytes[1], bytes[2]>>

EncodeUnit(d) == IF IsShort(d) THEN ShortUnit(d) ELSE LongUnit(d)

\* The deltas Encode computes, one per sample.
Deltas(buf) == [i \in 1..Len(buf) |-> Delta(buf[i], IF i = 1 THEN 0 ELSE buf[i - 1])]

RECURSIVE EncodeFrom(_, _, _)
EncodeFrom(buf, i, last) ==
    IF i > Len(buf) THEN <<>>
    ELSE EncodeUnit(Delta(buf[i], last)) \o EncodeFrom(buf, i + 1, buf[i])

EncodeBuffer(buf) == EncodeFrom(buf, 1, 0)

(***************************************************************************)
(* Decode (main.rs 187-216).  DecodeSteps is the trace of the while loop:   *)
(* one record per iteration, with the position of the byte `iter.next()`   *)
(* returned, the branch taken, the position of the second byte (0 when no  *)
(* second byte was read) and the sample pushed.                            *)
(***************************************************************************)
\* Mutant of LongTag: the polarity Encode writes.
LongTagOdd(b) == b % 2 = 1

\* if byte & 1 == 0: the branch that reads a second byte.
LongTag(b) == b % 2 = 0

RECURSIVE DecodeSteps(_, _, _)
DecodeSteps(bytes, i, last) ==
    IF i > Len(bytes) THEN <<>>
    ELSE IF LongTag(bytes[i])
         THEN IF i + 1 <= Len(bytes)
              THEN LET v == FromLeBytes(bytes[i], bytes[i + 1]) * Quantum + last
                   IN <<[at |-> i, branch |-> "long", second |-> i + 1,
                         emitted |-> TRUE, sample |-> v]>>
                      \o DecodeSteps(bytes, i + 2, v)
              ELSE <<[at |-> i, branch |-> "long", second |-> 0,
                      emitted |-> FALSE, sample |-> 0]>>
         ELSE LET v == AsI8(bytes[i]) * Quantum + last
              IN <<[at |-> i, branch |-> "short", second |-> 0,
                    emitted |-> TRUE, sample |-> v]>>
                 \o DecodeSteps(bytes, i + 1, v)

\* Mutant of Emitted: an incomplete trailing unit is pushed too.
EmittedAll(steps) == [s \in 1..Len(steps) |-> steps[s].sample]

\* new_buffer: the samples pushed, in order.
RECURSIVE Emitted(_)
Emitted(steps) ==
    IF steps = <<>> THEN <<>>
    ELSE (IF Head(steps).emitted THEN <<Head(steps).sample>> ELSE <<>>)
         \o Emitted(Tail(steps))

DecodeBuffer(bytes) == Emitted(DecodeSteps(bytes, 1, 0))

(***************************************************************************)
(* Process (main.rs 222-243).  A speed is the f32 num / den with den > 0,  *)
(* written <<num, den>>; the speeds of the model and the small indices     *)
(* they are multiplied with are exact in f32, and no quotient the model    *)
(* rounds is within a rounding error of a tie.                             *)
(***************************************************************************)
\* f32::round of num / den, den > 0: to the nearest, ties away from zero.
Round(num, den) ==
    IF num >= 0 THEN (2 * num + den) \div (2 * den)
    ELSE -((2 * (-num) + den) \div (2 * den))

\* (self.buffer.len() as f32 / self.speed).round() as usize.  The quotient
\* is NaN for 0 / 0 and negative or -0 for a negative speed, both 0 as
\* usize; it is +inf for a positive length over 0, usize::MAX as usize,
\* written -1 here.
ProcessLen(n, speed) ==
    IF speed[1] = 0 THEN (IF n = 0 THEN 0 ELSE -1)
    ELSE IF speed[1] < 0 THEN 0
    ELSE Round(n * speed[2], speed[1])

\* original_index.fract() of a rounded value.
Fract(x) == 0

\* Mutant of ProcessAt: without the `else if left_index < len` branch.
ProcessAtNoFallback(buf, speed, i) ==
    LET left_index == Round(i * speed[1], speed[2])
    IN IF left_index + 1 < Len(buf) THEN <<buf[left_index + 1]>> ELSE <<>>

\* One iteration of the loop: what it pushes for output index i.
ProcessAt(buf, speed, i) ==
    LET original_index == Round(i * speed[1], speed[2])
        left_index == original_index
        right_index == left_index + 1
        fractional == Fract(original_index)
    IN IF right_index < Len(buf)
       THEN <<(1 - fractional) * buf[left_index + 1]
              + fractional * buf[right_index + 1]>>
       ELSE IF left_index < Len(buf)
            THEN <<buf[left_index + 1]>>
            ELSE <<>>

RECURSIVE ProcessFrom(_, _, _, _)
ProcessFrom(buf, speed, i, len) ==
    IF i >= len THEN <<>>
    ELSE ProcessAt(buf, speed, i) \o ProcessFrom(buf, speed, i + 1, len)

\* Vec::with_capacity(usize::MAX) panics with "capacity overflow".
ProcessPanics(buf, speed) == ProcessLen(Len(buf), speed) = -1

ProcessBuffer(buf, speed) ==
    ProcessFrom(buf, speed, 0, ProcessLen(Len(buf), speed))

(***************************************************************************)
(* Sin (main.rs 151-158).  SinSample is (i * frequency).sin() as f32 * 0.5 *)
(* to the nearest sample unit, for the frequencies 0.0 and 0.1 (the        *)
(* initial value) and i up to 6.                                           *)
(***************************************************************************)
Frequencies == {"0.0", "0.1"}

SinSample(frequency, i) ==
    IF frequency = "0.0" \/ i = 0 THEN 0
    ELSE CASE i = 1 -> 26170
           [] i = 2 -> 52078
           [] i = 3 -> 77466
           [] i = 4 -> 102081
           [] i = 5 -> 125675
           [] OTHER -> 148013

SinBuffer(buf, length, frequency) ==
    LET resized == buf \o Zeros(Max(Len(buf), length) - Len(buf))
    IN [i \in 1..Len(resized) |->
          IF i <= length THEN resized[i] + SinSample(frequency, i - 1)
          ELSE resized[i]]

(***************************************************************************)
(* The state.                                                              *)
(***************************************************************************)
VARIABLES
    \* Application (main.rs 9-33)
    buffer,             \* the working buffer
    buffers,            \* the saved buffers
    encoded_buffer,     \* the last Encode's bytes
    recording,          \* the Recording checkbox
    rem,                \* the remaining-queued count
    \* the channels (main.rs 44-47), each the sequence of its unread items
    output_channel,     \* output_sender      -> output_receiver
    output_rem_channel, \* output_rem_sender  -> output_rem_receiver
    input_channel,      \* input_sender       -> input_receiver
    input_rec_channel,  \* input_sender_rec   -> input_receiver_rec
    \* the output callback (main.rs 50, 58-70)
    out_buffer,         \* its VecDeque `buffer`
    out_queued,         \* `buffer` when the try_recv loop has ended (<<>> between calls)
    out_data,           \* `data`, the frame being filled (<<>> between calls)
    \* the input callback (main.rs 78, 86-93)
    in_recording,       \* its `recording`
    in_data,            \* `data.to_vec()`, the chunk being sent (<<>> otherwise)
    \* where each thread is
    ctlPc,              \* "drain" | "ui" | "send_recording" | "send_output" | "panicked"
    sent_buffer,        \* the clone Submit hands to send (<<>> once sent)
    outPc,              \* "idle" | "send_rem"
    inPc,               \* "idle" | "send_input"
    \* history
    submitted,          \* the clones made by Submit, in order
    played,             \* the samples popped into frames, in order
    delivered,          \* per input tick: the chunk, the flag and the toggles found
    received,           \* the chunks the control thread took from input_channel
    encoded_from,       \* the samples the last Encode read
    processed,          \* the last Process click: the samples it read and self.speed
    nOutTicks,          \* output-callback invocations so far
    nToggles,           \* Recording changes so far
    nOps                \* buffer-editing clicks so far

appVars == <<buffer, buffers, encoded_buffer, recording, rem>>
chanVars == <<output_channel, output_rem_channel, input_channel, input_rec_channel>>
outVars == <<out_buffer, out_queued, out_data, outPc, played, nOutTicks>>
inVars == <<in_recording, in_data, inPc, delivered>>
ctlVars == <<ctlPc, sent_buffer, submitted, received, encoded_from, processed,
             nToggles, nOps>>
vars == <<appVars, chanVars, outVars, inVars, ctlVars>>

\* The sample of `whole` i16 steps and `frac` sixteenths (both of one sign).
Steps(whole, frac) == whole * Quantum + frac

\* The chunks the input device delivers.
Chunks == {<<Steps(100, 3)>>, <<Steps(-200, -5), Steps(300, 9)>>}

\* Values of the Speed knob: 0.5, 2 and 0.
Speeds == {<<1, 2>>, <<2, 1>>, <<0, 1>>}

\* The state Application::default builds (main.rs 100-120, 50, 78).
Fresh ==
    /\ buffers = <<>> /\ encoded_buffer = <<>>
    /\ recording = FALSE /\ rem = 0
    /\ output_channel = <<>> /\ output_rem_channel = <<>>
    /\ input_channel = <<>> /\ input_rec_channel = <<>>
    /\ out_buffer = <<>> /\ out_queued = <<>> /\ out_data = <<>>
    /\ in_recording = FALSE /\ in_data = <<>>
    /\ ctlPc = "drain" /\ sent_buffer = <<>> /\ outPc = "idle" /\ inPc = "idle"
    /\ submitted = <<>> /\ played = <<>> /\ delivered = <<>> /\ received = <<>>
    /\ encoded_from = <<>> /\ processed = <<>>
    /\ nOutTicks = 0 /\ nToggles = 0 /\ nOps = 0

Init == buffer = <<>> /\ Fresh

\* A panic in update ends the process.
Running == ctlPc # "panicked"

(***************************************************************************)
(* The output callback (main.rs 58-70).                                    *)
(***************************************************************************)
\* Mutant of PopFront: pops at the back (pop_back).
PopBack(q) ==
    IF q = <<>> THEN [some |-> FALSE, value |-> 0, rest |-> <<>>]
    ELSE [some |-> TRUE, value |-> Last(q), rest |-> SubSeq(q, 1, Len(q) - 1)]

\* VecDeque::pop_front.
PopFront(q) ==
    IF q = <<>> THEN [some |-> FALSE, value |-> 0, rest |-> <<>>]
    ELSE [some |-> TRUE, value |-> Head(q), rest |-> Tail(q)]

\* for byte in data.iter_mut() { *byte = pop_front or 0.0 }, over n samples.
RECURSIVE FillFrame(_, _)
FillFrame(q, n) ==
    IF n = 0 THEN [frame |-> <<>>, popped |-> <<>>, rest |-> q]
    ELSE LET p == PopFront(q)
             r == FillFrame(p.rest, n - 1)
         IN [frame |-> <<IF p.some THEN p.value ELSE 0>> \o r.frame,
             popped |-> (IF p.some THEN <<p.value>> ELSE <<>>) \o r.popped,
             rest |-> r.rest]

\* Mutant of DrainOutput: the buffers received are not queued.
DrainOutputNone(q, channel) == q

\* Mutant of DrainOutput: new buffers go to the head of the queue.
DrainOutputFront(q, channel) == Flatten(channel) \o q

\* while let Ok(buff) = output_receiver.try_recv() { buffer.extend(buff) }
DrainOutput(q, channel) == q \o Flatten(channel)

\* The budget of a specification that does not count the ticks.
NoLimit == 0 - 1

\* One invocation with a frame of n samples, up to the send of the report.
OutputCallback(n, maxTicks) ==
    /\ Running /\ outPc = "idle"
    /\ maxTicks = NoLimit \/ nOutTicks < maxTicks
    /\ LET q == DrainOutput(out_buffer, output_channel)
           r == FillFrame(q, n)
       IN /\ out_queued' = q
          /\ out_buffer' = r.rest
          /\ out_data' = r.frame
          /\ played' = played \o r.popped
    /\ output_channel' = <<>>
    /\ outPc' = "send_rem"
    /\ nOutTicks' = IF maxTicks = NoLimit THEN nOutTicks ELSE nOutTicks + 1
    /\ UNCHANGED <<appVars, output_rem_channel, input_channel, input_rec_channel,
                   inVars, ctlVars>>

\* output_rem_sender.send(buffer.len()): SyncSender::send returns once the
\* channel has room for the item, and waits until then.
SendRem ==
    /\ Running /\ outPc = "send_rem"
    /\ Len(output_rem_channel) < Capacity
    /\ output_rem_channel' = Append(output_rem_channel, Len(out_buffer))
    /\ out_queued' = <<>> /\ out_data' = <<>>
    /\ outPc' = "idle"
    /\ UNCHANGED <<appVars, output_channel, input_channel, input_rec_channel,
                   out_buffer, played, nOutTicks, inVars, ctlVars>>

(***************************************************************************)
(* The input callback (main.rs 86-93).                                     *)
(***************************************************************************)
\* Mutant of DrainRec: one try_recv instead of the loop.
DrainRecOnce(flag, channel) == IF channel = <<>> THEN flag ELSE Head(channel)

\* while let Ok(rec) = input_receiver_rec.try_recv() { recording = rec }
DrainRec(flag, channel) == IF channel = <<>> THEN flag ELSE Last(channel)

\* if recording { send(data.to_vec()) }
Forwards(flag) == flag

InputCallback(chunk, maxTicks) ==
    /\ Running /\ inPc = "idle" /\ Len(delivered) < maxTicks
    /\ in_recording' = DrainRec(in_recording, input_rec_channel)
    /\ input_rec_channel' = <<>>
    /\ in_data' = IF Forwards(in_recording') THEN chunk ELSE <<>>
    /\ delivered' = Append(delivered, [chunk |-> chunk, before |-> in_recording,
                                       toggles |-> input_rec_channel])
    /\ inPc' = IF Forwards(in_recording') THEN "send_input" ELSE "idle"
    /\ UNCHANGED <<appVars, output_channel, output_rem_channel, input_channel,
                   outVars, ctlVars>>

\* input_sender.send(data.to_vec()): waits while the channel is full.
SendInput ==
    /\ Running /\ inPc = "send_input"
    /\ Len(input_channel) < Capacity
    /\ input_channel' = Append(input_channel, in_data)
    /\ in_data' = <<>>
    /\ inPc' = "idle"
    /\ UNCHANGED <<appVars, output_channel, output_rem_channel, input_rec_channel,
                   outVars, in_recording, delivered, ctlVars>>

(***************************************************************************)
(* The control thread: App::update (main.rs 125-262).  One call drains the *)
(* two incoming channels and then handles at most one widget event; eframe *)
(* calls it again for the next frame.                                      *)
(***************************************************************************)
\* while let Ok(rem) = try_recv() { self.rem = rem }
DrainRem(count, channel) == IF channel = <<>> THEN count ELSE Last(channel)

\* Mutant of DrainInput: the test of self.recording is missing.
DrainInputAlways(buf, flag, channel) == buf \o Flatten(channel)

\* while let Ok(buff) = try_recv() { if self.recording { extend(buff) } }
DrainInput(buf, flag, channel) == IF flag THEN buf \o Flatten(channel) ELSE buf

\* Mutant of UpdateDrain: output-remaining is not drained.
UpdateDrainLeavesRem ==
    /\ ctlPc = "drain"
    /\ buffer' = DrainInput(buffer, recording, input_channel)
    /\ received' = received \o input_channel
    /\ input_channel' = <<>>
    /\ ctlPc' = "ui"
    /\ UNCHANGED <<buffers, encoded_buffer, recording, rem, output_channel,
                   output_rem_channel, input_rec_channel, outVars, inVars,
                   sent_buffer, submitted, encoded_from, processed, nToggles, nOps>>

UpdateDrain ==
    /\ ctlPc = "drain"
    /\ rem' = DrainRem(rem, output_rem_channel)
    /\ output_rem_channel' = <<>>
    /\ buffer' = DrainInput(buffer, recording, input_channel)
    /\ received' = received \o input_channel
    /\ input_channel' = <<>>
    /\ ctlPc' = "ui"
    /\ UNCHANGED <<buffers, encoded_buffer, recording, output_channel,
                   input_rec_channel, outVars, inVars, sent_buffer, submitted,
                   encoded_from, processed, nToggles, nOps>>

\* A frame in which no widget reports an event.
NoEvent ==
    /\ ctlPc = "ui"
    /\ ctlPc' = "drain"
    /\ UNCHANGED <<appVars, chanVars, outVars, inVars, sent_buffer, submitted,
                   received, encoded_from, processed, nToggles, nOps>>

\* The Recording checkbox changed (147): the flag flips, then it is sent.
Recording(maxToggles) ==
    /\ ctlPc = "ui" /\ nToggles < maxToggles
    /\ recording' = ~recording
    /\ nToggles' = nToggles + 1
    /\ ctlPc' = "send_recording"
    /\ UNCHANGED <<buffer, buffers, encoded_buffer, rem, chanVars, outVars,
                   inVars, sent_buffer, submitted, received, encoded_from, processed, nOps>>

\* Mutant of SendRecording: the value before the change is sent.
SendRecordingStale ==
    /\ ctlPc = "send_recording"
    /\ Len(input_rec_channel) < Capacity
    /\ input_rec_channel' = Append(input_rec_channel, ~recording)
    /\ ctlPc' = "drain"
    /\ UNCHANGED <<appVars, output_channel, output_rem_channel, input_channel,
                   outVars, inVars, sent_buffer, submitted, received,
                   encoded_from, processed, nToggles, nOps>>

\* self.input_sender.send(self.recording) (148): waits while the channel is full.
SendRecording ==
    /\ ctlPc = "send_recording"
    /\ Len(input_rec_channel) < Capacity
    /\ input_rec_channel' = Append(input_rec_channel, recording)
    /\ ctlPc' = "drain"
    /\ UNCHANGED <<appVars, output_channel, output_rem_channel, input_channel,
                   outVars, inVars, sent_buffer, submitted, received, encoded_from, processed, nToggles,
                   nOps>>

\* Mutant of AfterClone: std::mem::take instead of clone.
AfterTake(buf) == <<>>

\* What self.buffer holds once self.buffer.clone() has been taken.
AfterClone(buf) == buf

\* Submit clicked (245-246): the clone is made, then it is sent.
Submit(maxSubmits) ==
    /\ ctlPc = "ui" /\ Len(submitted) < maxSubmits
    /\ sent_buffer' = buffer
    /\ buffer' = AfterClone(buffer)
    /\ submitted' = Append(submitted, buffer)
    /\ ctlPc' = "send_output"
    /\ UNCHANGED <<buffers, encoded_buffer, recording, rem, chanVars, outVars,
                   inVars, received, encoded_from, processed, nToggles, nOps>>

\* self.output_sender.send(..) (246) waits while the channel is full; when
\* it returns, self.rem += 1 (247).
SendOutput ==
    /\ ctlPc = "send_output"
    /\ Len(output_channel) < Capacity
    /\ output_channel' = Append(output_channel, sent_buffer)
    /\ sent_buffer' = <<>>
    /\ rem' = rem + 1
    /\ ctlPc' = "drain"
    /\ UNCHANGED <<buffer, buffers, encoded_buffer, recording,
                   output_rem_channel, input_channel, input_rec_channel,
                   outVars, inVars, submitted, received, encoded_from, processed, nToggles, nOps>>

\* What a buffer-editing click leaves alone.
EditFrame ==
    /\ ctlPc = "ui"
    /\ nOps' = nOps + 1
    /\ UNCHANGED <<recording, rem, chanVars, outVars, inVars, sent_buffer,
                   submitted, received, nToggles>>

\* Sin clicked (151-158).
Sin(length, frequency, maxOps) ==
    /\ nOps < maxOps /\ EditFrame
    /\ buffer' = SinBuffer(buffer, length, frequency)
    /\ ctlPc' = "drain"
    /\ UNCHANGED <<buffers, encoded_buffer, encoded_from, processed>>

\* Encode clicked (160-185).
Encode(maxOps) ==
    /\ nOps < maxOps /\ EditFrame
    /\ encoded_buffer' = EncodeBuffer(buffer)
    /\ encoded_from' = buffer
    /\ ctlPc' = "drain"
    /\ UNCHANGED <<buffer, buffers, processed>>

\* Decode clicked (187-216).
Decode(maxOps) ==
    /\ nOps < maxOps /\ EditFrame
    /\ buffer' = DecodeBuffer(encoded_buffer)
    /\ ctlPc' = "drain"
    /\ UNCHANGED <<buffers, encoded_buffer, encoded_from, processed>>

\* Clear clicked (218-220).
Clear(maxOps) ==
    /\ nOps < maxOps /\ EditFrame
    /\ buffer' = <<>>
    /\ ctlPc' = "drain"
    /\ UNCHANGED <<buffers, encoded_buffer, encoded_from, processed>>

\* Process clicked (222-243).
Process(speed, maxOps) ==
    /\ nOps < maxOps /\ EditFrame
    /\ IF ProcessPanics(buffer, speed)
       THEN buffer' = buffer /\ ctlPc' = "panicked"
       ELSE buffer' = ProcessBuffer(buffer, speed) /\ ctlPc' = "drain"
    /\ processed' = <<[from |-> buffer, speed |-> speed]>>
    /\ UNCHANGED <<buffers, encoded_buffer, encoded_from>>

\* Save clicked (251-253): std::mem::take moves the buffer into the list.
Save(maxOps, maxSnapshots) ==
    /\ nOps < maxOps /\ Len(buffers) < maxSnapshots /\ EditFrame
    /\ buffers' = Append(buffers, buffer)
    /\ buffer' = <<>>
    /\ ctlPc' = "drain"
    /\ UNCHANGED <<encoded_buffer, encoded_from, processed>>

\* Mutant of Load: the snapshot is moved out (std::mem::take), not cloned.
LoadTakes(i, maxOps) ==
    /\ nOps < maxOps /\ EditFrame
    /\ i \in 1..Len(buffers)
    /\ buffer' = buffers[i]
    /\ buffers' = [buffers EXCEPT ![i] = <<>>]
    /\ ctlPc' = "drain"
    /\ UNCHANGED <<encoded_buffer, encoded_from, processed>>

\* Load: i clicked (254-258).
Load(i, maxOps) ==
    /\ nOps < maxOps /\ EditFrame
    /\ i \in 1..Len(buffers)
    /\ buffer' = buffers[i]
    /\ ctlPc' = "drain"
    /\ UNCHANGED <<buffers, encoded_buffer, encoded_from, processed>>

(***************************************************************************)
(* Spec: the whole program, a few operations of each kind.                 *)
(***************************************************************************)
Next ==
    \/ UpdateDrain
    \/ NoEvent
    \/ Recording(MaxToggles)
    \/ SendRecording
    \/ Submit(MaxSubmits)
    \/ SendOutput
    \/ \E length \in 1..MaxLength : Sin(length, "0.1", MaxOps)
    \/ Encode(MaxOps)
    \/ Decode(MaxOps)
    \/ Clear(MaxOps)
    \/ \E speed \in Speeds : Process(speed, MaxOps)
    \/ Save(MaxOps, MaxSnapshots)
    \/ \E i \in 1..MaxSnapshots : Load(i, MaxOps)
    \/ \E n \in 0..MaxFrame : OutputCallback(n, MaxOutTicks)
    \/ SendRem
    \/ \E chunk \in Chunks : InputCallback(chunk, MaxInTicks)
    \/ SendInput

Spec == Init /\ [][Next]_vars

(***************************************************************************)
(* SpecOut: the playback path alone (Submit, the output callback and the   *)
(* drains of update), with Sin, Process and Clear to build the buffers     *)
(* that are submitted.                                                     *)
(***************************************************************************)
NextOut ==
    \/ UpdateDrain
    \/ NoEvent
    \/ Submit(MaxSubmits)
    \/ SendOutput
    \/ \E length \in 1..MaxLength : Sin(length, "0.1", MaxOps)
    \/ \E speed \in Speeds : Process(speed, MaxOps)
    \/ Clear(MaxOps)
    \/ \E n \in 0..MaxFrame : OutputCallback(n, MaxOutTicks)
    \/ SendRem

SpecOut == Init /\ [][NextOut]_vars

(***************************************************************************)
(* SpecIn: the recording path alone (the Recording checkbox, the input     *)
(* callback and the drains of update), with more toggles and input ticks.  *)
(***************************************************************************)
InTicks == MaxInTicks + 2
InToggles == MaxToggles + 2

NextIn ==
    \/ UpdateDrain
    \/ NoEvent
    \/ Recording(InToggles)
    \/ SendRecording
    \/ Clear(MaxOps)
    \/ \E chunk \in Chunks : InputCallback(chunk, InTicks)
    \/ SendInput

SpecIn == Init /\ [][NextIn]_vars

(***************************************************************************)
(* SpecFull: the playback path alone, with enough Submit clicks and output *)
(* ticks to fill output_channel and output_rem_channel.  The working       *)
(* buffer stays empty.                                                     *)
(***************************************************************************)
FullSubmits == Capacity + 1
FullOutTicks == Capacity + 1

NextFull ==
    \/ UpdateDrain
    \/ NoEvent
    \/ Submit(FullSubmits)
    \/ SendOutput
    \/ OutputCallback(MaxFrame, FullOutTicks)
    \/ SendRem

SpecFull == Init /\ [][NextFull]_vars

(***************************************************************************)
(* SpecCodec: Encode and Decode as functions.  The working buffer starts   *)
(* as any sequence of up to MaxCodecLen samples of CodecSamples (what a    *)
(* recording can leave there); the values are chosen so that the deltas    *)
(* between them fall on and around both ends of the short range and at     *)
(* both ends of i16.                                                       *)
(***************************************************************************)
CodecSamples ==
    { 0, Steps(1, 2), Steps(-1, -6),
      Steps(126, 8), Steps(127, 4), Steps(-127, -15), Steps(-128, -3),
      Steps(-129, -9), Steps(32767, 5), Steps(-32768, -5) }

RECURSIVE SeqsUpTo(_, _)
SeqsUpTo(S, n) ==
    IF n = 0 THEN {<<>>}
    ELSE LET shorter == SeqsUpTo(S, n - 1)
         IN shorter \cup {Append(s, x) : s \in {q \in shorter : Len(q) = n - 1}, x \in S}

InitCodec == buffer \in SeqsUpTo(CodecSamples, MaxCodecLen) /\ Fresh

CodecOps == MaxOps + 1

NextCodec ==
    \/ UpdateDrain
    \/ Encode(CodecOps)
    \/ Decode(CodecOps)

SpecCodec == InitCodec /\ [][NextCodec]_vars

(***************************************************************************)
(* SpecRound: Encode followed by Decode on the buffers made of the samples *)
(* 0.0, 0.1, 0.05 and -0.2, written to the nearest sample unit             *)
(* (0.1 * 32767 = 3276.7 i16 steps, 0.05 * 32767 = 1638.35,                *)
(* -0.2 * 32767 = -6553.4).                                                *)
(***************************************************************************)
RoundTripInput == <<0, Steps(3276, 11), Steps(1638, 6), Steps(-6553, -6)>>

RoundTripSamples == {RoundTripInput[i] : i \in 1..Len(RoundTripInput)}

InitRound ==
    buffer \in SeqsUpTo(RoundTripSamples, Len(RoundTripInput)) /\ Fresh

NextRound ==
    \/ UpdateDrain
    \/ Encode(CodecOps)
    \/ Decode(CodecOps)

SpecRound == InitRound /\ [][NextRound]_vars

(***************************************************************************)
(* SpecDecode: Decode as a function of the byte stream.  The stored stream *)
(* starts as any sequence of up to MaxDecodeLen bytes of DecodeBytes (both *)
(* parities, both signs as i8, both ends of u8).                           *)
(***************************************************************************)
DecodeBytes == {0, 1, 2, 127, 128, 254, 255}

InitDecode ==
    /\ buffer = <<>>
    /\ encoded_buffer \in SeqsUpTo(DecodeBytes, MaxDecodeLen)
    /\ recording = FALSE /\ rem = 0 /\ buffers = <<>>
    /\ output_channel = <<>> /\ output_rem_channel = <<>>
    /\ input_channel = <<>> /\ input_rec_channel = <<>>
    /\ out_buffer = <<>> /\ out_queued = <<>> /\ out_data = <<>>
    /\ in_recording = FALSE /\ in_data = <<>>
    /\ ctlPc = "drain" /\ sent_buffer = <<>> /\ outPc = "idle" /\ inPc = "idle"
    /\ submitted = <<>> /\ played = <<>> /\ delivered = <<>> /\ received = <<>>
    /\ encoded_from = <<>> /\ processed = <<>>
    /\ nOutTicks = 0 /\ nToggles = 0 /\ nOps = 0

NextDecode ==
    \/ UpdateDrain
    \/ NoEvent
    \/ Decode(MaxOps)

SpecDecode == InitDecode /\ [][NextDecode]_vars

(***************************************************************************)
(* SpecProc: Process as a function of the buffer and the Speed knob.  The  *)
(* buffer starts as any sequence of up to MaxProcLen samples; the speeds   *)
(* are 1, 0.5, 0.25, 1.5, 2, 0, -1 and -0.5, all exact in f32.             *)
(***************************************************************************)
ProcSamples == {Steps(100, 3), Steps(-200, -5), Steps(300, 9)}

ProcSpeeds ==
    {<<1, 1>>, <<1, 2>>, <<1, 4>>, <<3, 2>>, <<2, 1>>, <<0, 1>>, <<-1, 1>>, <<-1, 2>>}

InitProc == buffer \in SeqsUpTo(ProcSamples, MaxProcLen) /\ Fresh

NextProc ==
    \/ UpdateDrain
    \/ NoEvent
    \/ \E speed \in ProcSpeeds : Process(speed, MaxOps)

SpecProc == InitProc /\ [][NextProc]_vars

(***************************************************************************)
(* SpecDead: update against both callbacks, with enough Submit clicks to   *)
(* fill output_channel and output ticks that are not counted, so that      *)
(* output_rem_channel fills as well.  An execution uses one path: Submit   *)
(* is clicked while nothing was toggled or recorded, the Recording         *)
(* checkbox and the input callback are used while nothing was submitted.   *)
(***************************************************************************)
NothingRecorded == nToggles = 0 /\ delivered = <<>>
NothingSubmitted == submitted = <<>>

NextDead ==
    \/ UpdateDrain
    \/ NoEvent
    \/ NothingRecorded /\ Submit(FullSubmits)
    \/ SendOutput
    \/ NothingSubmitted /\ Recording(InToggles)
    \/ SendRecording
    \/ OutputCallback(MaxFrame, NoLimit)
    \/ SendRem
    \/ NothingSubmitted /\ \E chunk \in Chunks : InputCallback(chunk, InTicks)
    \/ SendInput

SpecDead == Init /\ [][NextDead]_vars

(***************************************************************************)
(* SpecLive: the playback path with output ticks that are not counted,     *)
(* under the scheduling of the program: eframe keeps calling update (the   *)
(* control thread takes its next step whenever it can), and the output     *)
(* device keeps invoking the callback, every time with a frame of at least *)
(* one sample, and lets a send that has room complete.                     *)
(***************************************************************************)
ControlStep ==
    \/ UpdateDrain
    \/ NoEvent
    \/ Submit(MaxSubmits)
    \/ SendOutput
    \/ \E length \in 1..MaxLength : Sin(length, "0.1", MaxOps)

OutputTick == \E n \in 1..MaxFrame : OutputCallback(n, NoLimit)

NextLive ==
    \/ ControlStep
    \/ OutputTick
    \/ SendRem

SpecLive ==
    /\ Init /\ [][NextLive]_vars
    /\ WF_vars(ControlStep)
    /\ WF_vars(OutputTick)
    /\ WF_vars(SendRem)

(***************************************************************************)
(* SpecSnap: Save and Load, with Sin, Process and Clear to change the      *)
(* working buffer between them.                                            *)
(***************************************************************************)
SnapOps == MaxOps + 3
SnapSnapshots == MaxSnapshots + 1

NextSnap ==
    \/ UpdateDrain
    \/ NoEvent
    \/ \E length \in 1..MaxLength : Sin(length, "0.1", SnapOps)
    \/ Process(<<1, 2>>, SnapOps)
    \/ Clear(SnapOps)
    \/ Save(SnapOps, SnapSnapshots)
    \/ \E i \in 1..SnapSnapshots : Load(i, SnapOps)

SpecSnap == Init /\ [][NextSnap]_vars

(***************************************************************************)
(* The claims.                                                             *)
(***************************************************************************)
\* A thread waits when it is inside a send whose channel is full.
OutputCallbackWaits == outPc = "send_rem" /\ Len(output_rem_channel) = Capacity
InputCallbackWaits == inPc = "send_input" /\ Len(input_channel) = Capacity
SubmitWaits == ctlPc = "send_output" /\ Len(output_channel) = Capacity

\* C1: neither callback ever waits on a channel operation: the report on
\* output-remaining and the forward on input-feed complete at once, also
\* when the channel already holds 16 unread items.
C1_CallbacksNeverWait == ~OutputCallbackWaits /\ ~InputCallbackWaits

\* C2: Submit never blocks the control thread: with 16 unread buffers on
\* output-feed a further Submit returns at once (and drops its buffer).
C2_SubmitNeverWaits == ~SubmitWaits

\* C3: a tick that asks for N samples with L queued once output-feed is
\* drained writes the first min(N, L) queued samples, then N - min(N, L)
\* zeros, and leaves the other L - min(N, L) queued; with nothing queued
\* every sample written is 0 and the queue stays empty.
C3_Underrun ==
    outPc = "send_rem" =>
        LET N == Len(out_data)
            L == Len(out_queued)
            k == IF N < L THEN N ELSE L
        IN /\ out_data = SubSeq(out_queued, 1, k) \o [i \in 1..(N - k) |-> 0]
           /\ out_buffer = SubSeq(out_queued, k + 1, L)
           /\ L = 0 => (out_buffer = <<>> /\ \A i \in 1..N : out_data[i] = 0)

\* C3 witness: a tick that asked for two samples with one queued.
C3_Witness ==
    /\ outPc = "send_rem"
    /\ Len(out_queued) = 1 /\ Len(out_data) = 2
    /\ out_data[1] # 0 /\ out_data[2] = 0

\* What has been submitted and not yet played, in the order it will play.
Unplayed ==
    out_buffer \o Flatten(output_channel)
    \o (IF ctlPc = "send_output" THEN sent_buffer ELSE <<>>)

\* C4: the samples written to frames that are not padding are, across ticks
\* in order, a prefix of the concatenation of the submitted buffers in Submit
\* order, and what follows them in that concatenation is exactly what still
\* waits to be played: nothing is played twice, skipped or reordered.
C4_PlaybackOrder ==
    /\ IsPrefix(played, Flatten(submitted))
    /\ played \o Unplayed = Flatten(submitted)
    /\ outPc = "send_rem" =>
          LET k == Min(Len(out_data), Len(out_queued))
          IN SubSeq(out_data, 1, k) = SubSeq(played, Len(played) - k + 1, Len(played))

\* C4 witness: two different non-empty buffers submitted, and playback has
\* passed from the first into the second.
C4_Witness ==
    /\ Len(submitted) = 2
    /\ submitted[1] # <<>> /\ submitted[2] # <<>> /\ submitted[1] # submitted[2]
    /\ Len(played) > Len(submitted[1])
    /\ nOutTicks >= 2

\* Where submission k starts in the concatenation of the submitted buffers.
RECURSIVE SubmissionOffset(_)
SubmissionOffset(k) ==
    IF k = 1 THEN 0 ELSE SubmissionOffset(k - 1) + Len(submitted[k - 1])

\* C5: Submit leaves the working buffer unchanged and hands over a copy of
\* it; a step that changes the working buffer changes no copy that was
\* handed over; and the samples played for a submission are the working
\* buffer's content at the moment of that Submit.
C5_HandOffByCopy ==
    /\ [][Len(submitted') > Len(submitted)
            => (buffer' = buffer /\ sent_buffer' = buffer)]_vars
    /\ [][buffer' # buffer
            => UNCHANGED <<sent_buffer, output_channel, out_buffer, played, submitted>>]_vars
    /\ [](\A k \in 1..Len(submitted) : \A i \in 1..Len(submitted[k]) :
             SubmissionOffset(k) + i <= Len(played)
                => played[SubmissionOffset(k) + i] = submitted[k][i])

\* C5 witness: a submission partly played, the rest still queued, while the
\* working buffer has since been edited to something else.
C5_Witness ==
    /\ Len(submitted) = 1
    /\ played # <<>> /\ out_buffer # <<>>
    /\ buffer # <<>> /\ buffer # submitted[1]

\* The callback's flag once the toggles found at a tick are drained.
FlagAfterDrain(e) ==
    IF e.toggles = <<>> THEN e.before ELSE e.toggles[Len(e.toggles)]

\* The chunks of the ticks whose flag, after the drain, was set.
RECURSIVE ChunksToForward(_)
ChunksToForward(log) ==
    IF log = <<>> THEN <<>>
    ELSE (IF FlagAfterDrain(Head(log)) THEN <<Head(log).chunk>> ELSE <<>>)
         \o ChunksToForward(Tail(log))

\* C6: a delivered chunk goes to input-feed if and only if the callback's
\* flag is true once every pending toggle is drained at the start of that
\* tick (the flag is false before any toggle, and is kept between ticks);
\* the forwarded chunks are on input-feed in delivery order.
C6_RecordToggleGating ==
    /\ ChunksToForward(delivered)
         = received \o input_channel
           \o (IF inPc = "send_input" THEN <<in_data>> ELSE <<>>)
    /\ delivered # <<>> => delivered[1].before = FALSE
    /\ \A k \in 2..Len(delivered) :
          delivered[k].before = FlagAfterDrain(delivered[k - 1])

\* C6 witness: a tick that found two toggles (on, then off) and forwarded
\* nothing, a tick that found the flag set again and forwarded its chunk,
\* and a tick that found no toggle and forwarded on the kept flag.
C6_Witness ==
    /\ Len(delivered) = 3
    /\ delivered[1].toggles = <<TRUE, FALSE>>
    /\ delivered[2].toggles = <<TRUE>>
    /\ delivered[3].toggles = <<>>
    /\ received \o input_channel = <<delivered[2].chunk, delivered[3].chunk>>

\* The step of update that drains the two incoming channels.
DrainStep == ctlPc = "drain" /\ ctlPc' = "ui"

\* C7 (as claimed): every chunk forwarded on input-feed is appended by the
\* control thread to the working buffer, whole and in forwarding order.
C7_EveryForwardedChunkAppended ==
    [][DrainStep => buffer' = buffer \o Flatten(input_channel)]_vars

\* C7 (amended): the control thread takes every forwarded chunk, in
\* forwarding order; it appends them whole to the working buffer when its
\* own recording flag is set at that drain, and discards them when it is not.
C7_AppendedWhileRecording ==
    [][DrainStep =>
        /\ received' = received \o input_channel
        /\ input_channel' = <<>>
        /\ buffer' = IF recording THEN buffer \o Flatten(input_channel)
                     ELSE buffer]_vars

\* C7 witness: two chunks taken, the first appended and the second discarded.
C7_Witness ==
    /\ Len(received) = 2 /\ nOps = 0
    /\ buffer = received[1]

\* The deltas of the samples the last Encode read.
EncodedDeltas == Deltas(encoded_from)

\* The short range as the claims state it.
InShortRange(d) == -127 <= d /\ d <= 126

\* C8: Encode emits a 1-byte unit exactly when -127 <= d <= 126 and a 2-byte
\* unit otherwise, so the stream is (short deltas) + 2 * (long deltas) long.
C8_ShortUnitBoundary ==
    LET D == EncodedDeltas
        nShort == Cardinality({i \in 1..Len(D) : InShortRange(D[i])})
    IN /\ Len(encoded_buffer) = nShort + 2 * (Len(D) - nShort)
       /\ \A i \in 1..Len(D) :
             Len(EncodeBuffer(SubSeq(encoded_from, 1, i)))
               - Len(EncodeBuffer(SubSeq(encoded_from, 1, i - 1)))
             = IF InShortRange(D[i]) THEN 1 ELSE 2

\* C8 witness: Encode has run on samples with deltas on both sides of both
\* ends of the short range.
C8_Witness ==
    /\ encoded_buffer = EncodeBuffer(encoded_from)
    /\ \E i, j \in 1..Len(encoded_from) :
          /\ EncodedDeltas[i] \in {126, -127}
          /\ EncodedDeltas[j] \in {127, -128}

\* The split of a byte stream by the tag of each unit's first byte.
RECURSIVE SplitUnits(_)
SplitUnits(bytes) ==
    IF bytes = <<>> THEN <<>>
    ELSE IF Head(bytes) % 2 = 0
         THEN <<SubSeq(bytes, 1, 1)>> \o SplitUnits(Tail(bytes))
         ELSE IF Len(bytes) >= 2
              THEN <<SubSeq(bytes, 1, 2)>> \o SplitUnits(SubSeq(bytes, 3, Len(bytes)))
              ELSE <<bytes>>

\* A delta's two's-complement bytes with bit 0 of the first replaced by tag.
TaggedShort(d) == LET b == d % 256 IN <<b - (b % 2)>>
TaggedLong(d) ==
    LET lo == d % 256
        hi == (d % 65536) \div 256
    IN <<lo - (lo % 2) + 1, hi>>

\* C9: split by "first byte even: one byte, first byte odd: two bytes",
\* Encode's output is one unit per sample in order, each the delta's 8-bit
\* or little-endian 16-bit form with only bit 0 of the first byte replaced
\* by the tag; every byte stays a byte.
C9_SelfDescribing ==
    LET D == EncodedDeltas
        U == SplitUnits(encoded_buffer)
    IN /\ Len(U) = Len(D)
       /\ \A i \in 1..Len(D) :
             U[i] = IF InShortRange(D[i]) THEN TaggedShort(D[i]) ELSE TaggedLong(D[i])
       /\ \A i \in 1..Len(encoded_buffer) : encoded_buffer[i] \in 0..255

\* C9 witness: Encode has written a short unit for an odd delta and a long
\* unit for an even delta, so both tags changed a bit.
C9_Witness ==
    /\ encoded_buffer = EncodeBuffer(encoded_from)
    /\ \E i, j \in 1..Len(encoded_from) :
          /\ InShortRange(EncodedDeltas[i]) /\ EncodedDeltas[i] % 2 = 1
          /\ ~InShortRange(EncodedDeltas[j]) /\ EncodedDeltas[j] % 2 = 0

\* Where unit k of Encode's output starts.
RECURSIVE UnitStart(_)
UnitStart(k) ==
    IF k = 1 THEN 1
    ELSE UnitStart(k - 1) + (IF InShortRange(EncodedDeltas[k - 1]) THEN 1 ELSE 2)

ShortUnitStarts ==
    {UnitStart(k) : k \in {i \in 1..Len(encoded_from) : InShortRange(EncodedDeltas[i])}}

\* The iterations of Decode over the whole encoded stream.
DecodeTrace == DecodeSteps(encoded_buffer, 1, 0)

\* C10 (as claimed): every short unit Encode writes is read by Decode as
\* the first byte of a long unit.
C10_ShortReadAsFirstByte ==
    \A p \in ShortUnitStarts :
        \E s \in 1..Len(DecodeTrace) :
            DecodeTrace[s].branch = "long" /\ DecodeTrace[s].at = p

\* C10 (amended): every short unit Encode writes is read by Decode inside a
\* long unit, as its first byte or as its second byte; none is read as a
\* short unit.
C10_ShortReadInsideLong ==
    \A p \in ShortUnitStarts :
        \E s \in 1..Len(DecodeTrace) :
            /\ DecodeTrace[s].branch = "long"
            /\ DecodeTrace[s].at = p \/ DecodeTrace[s].second = p

\* C10 witness: Decode has run over two short units and read the second as
\* the second byte of the first.
C10_Witness ==
    /\ Len(encoded_from) = 2 /\ Len(encoded_buffer) = 2
    /\ buffer = DecodeBuffer(encoded_buffer) /\ Len(buffer) = 1
    /\ encoded_buffer[2] # 0

\* What a codec with one polarity would lose at sample i: each delta is
\* truncated by less than one i16 step and its tag bit costs at most one,
\* and Decode sums the deltas.
Tolerance(i) == 2 * i * Quantum

Abs(x) == IF x < 0 THEN -x ELSE x

RoundTripClose(x, y) ==
    /\ Len(y) = Len(x)
    /\ \A i \in 1..Len(x) : Abs(y[i] - x[i]) <= Tolerance(i)

\* C11: Decode applied to Encode(x) differs from x by more than the
\* quantisation of the tag bit for x = [0.0, 0.1, 0.05, -0.2], whose scaled
\* deltas are 0, 3276, -1638 and -8191: the round trip is not the identity.
C11_RoundTripNotIdentity ==
    (encoded_from = RoundTripInput /\ buffer = DecodeBuffer(encoded_buffer))
        => /\ EncodedDeltas = <<0, 3276, -1638, -8191>>
           /\ ~RoundTripClose(encoded_from, buffer)

\* C11 witness: Decode has run over Encode's seven bytes for that input
\* and has read the first two as one long unit.
C11_Witness ==
    /\ encoded_from = RoundTripInput /\ Len(encoded_buffer) = 7
    /\ buffer = DecodeBuffer(encoded_buffer)
    /\ Len(buffer) = 4
    /\ buffer[1] = FromLeBytes(encoded_buffer[1], encoded_buffer[2]) * Quantum

\* The positions of the bytes Decode reads, in the order it reads them.
RECURSIVE ReadOrder(_)
ReadOrder(steps) ==
    IF steps = <<>> THEN <<>>
    ELSE (IF Head(steps).second = 0 THEN <<Head(steps).at>>
          ELSE <<Head(steps).at, Head(steps).second>>)
         \o ReadOrder(Tail(steps))

\* The first bytes that yield a sample: the odd ones, and the even ones
\* that a second byte follows.
YieldingFirstBytes ==
    {s \in 1..Len(DecodeTrace) :
        \/ encoded_buffer[DecodeTrace[s].at] % 2 = 1
        \/ /\ encoded_buffer[DecodeTrace[s].at] % 2 = 0
           /\ DecodeTrace[s].at < Len(encoded_buffer)}

\* C12: Decode on any byte sequence finishes without an error, reads every
\* byte once from left to right, emits one sample per odd first byte and
\* per even first byte followed by a second byte (a lone even byte at the
\* end emits nothing), and leaves the stored encoded stream unchanged.
C12_DecodeTotal ==
    /\ [](nOps > 0 =>
            /\ Running
            /\ ReadOrder(DecodeTrace) = [i \in 1..Len(encoded_buffer) |-> i]
            /\ Len(buffer) = Cardinality(YieldingFirstBytes)
            /\ buffer = [k \in 1..Len(buffer) |->
                           DecodeTrace[CHOOSE s \in YieldingFirstBytes :
                               Cardinality({t \in YieldingFirstBytes : t <= s}) = k].sample])
    /\ [][nOps' # nOps => encoded_buffer' = encoded_buffer /\ ctlPc' = "drain"]_vars

\* C12 witness: Decode has run over three bytes, a long unit and a lone even
\* byte, and has pushed one sample.
C12_Witness ==
    /\ nOps > 0 /\ Len(encoded_buffer) = 3
    /\ encoded_buffer[1] % 2 = 0 /\ encoded_buffer[3] % 2 = 0
    /\ Len(buffer) = 1

\* The last Process click, in a state where no later click has changed the
\* buffer it wrote (SpecProc has no other operation on the buffer).
Processed == processed # <<>>
ProcessedFrom == processed[1].from
ProcessedSpeed == processed[1].speed

\* C13: Process with a zero or negative speed is rejected: the working
\* buffer is unchanged, it is not emptied, and no allocation of unbounded
\* size is attempted.
C13_InvalidSpeedRejected ==
    (Processed /\ ProcessedSpeed[1] <= 0) =>
        /\ Running
        /\ buffer = ProcessedFrom

\* C14: Process with speed 1.0 on a non-empty buffer returns a buffer of
\* the same length with the same sample at every index, the last included.
C14_ResamplerIdentity ==
    (Processed /\ ProcessedSpeed = <<1, 1>> /\ ProcessedFrom # <<>>) =>
        /\ Len(buffer) = Len(ProcessedFrom)
        /\ \A i \in 1..Len(ProcessedFrom) : buffer[i] = ProcessedFrom[i]

\* C14 witness: Process at speed 1.0 has run on a buffer of three samples,
\* not all equal.
C14_Witness ==
    /\ Processed /\ ProcessedSpeed = <<1, 1>>
    /\ Len(ProcessedFrom) = 3 /\ ProcessedFrom[3] # ProcessedFrom[2]
    /\ buffer = ProcessedFrom /\ ctlPc = "drain"

\* round(len / k) for the speed k = num / den > 0.
LawLen(n, k) == Round(n * k[2], k[1])

\* The input index that output index i (from 0) maps to.
MapsTo(i, k) == Round(i * k[1], k[2])

\* C15: for every speed k > 0 Process returns round(len / k) samples, or
\* exactly one fewer when the final output index maps past the end of the
\* input; no output element other than the final one is dropped.
C15_LengthLaw ==
    (Processed /\ ProcessedSpeed[1] > 0) =>
        LET n == Len(ProcessedFrom)
            full == LawLen(n, ProcessedSpeed)
            past == full > 0 /\ MapsTo(full - 1, ProcessedSpeed) >= n
        IN /\ Len(buffer) = IF past THEN full - 1 ELSE full
           /\ \A i \in 1..Len(buffer) :
                 buffer[i] = ProcessedFrom[MapsTo(i - 1, ProcessedSpeed) + 1]

\* C16: the remaining-queued count is 0 before any report and afterwards
\* the most recent value update took from output-remaining, each such value
\* being the ring buffer's length after the pops of some tick; Submit and
\* the other control operations never change it.
C16_RemReadOnly ==
    /\ rem = 0
    /\ [][rem' # rem =>
            /\ DrainStep /\ output_rem_channel # <<>>
            /\ rem' = Last(output_rem_channel)]_vars
    /\ [][(DrainStep /\ output_rem_channel # <<>>) =>
            rem' = Last(output_rem_channel)]_vars
    /\ [][output_rem_channel' # output_rem_channel /\ ~DrainStep =>
            /\ outPc = "send_rem"
            /\ output_rem_channel' = Append(output_rem_channel, Len(out_buffer))]_vars

\* The control thread is inside the send of a toggle and the channel is full.
RecordingWaits == ctlPc = "send_recording" /\ Len(input_rec_channel) = Capacity

PlayedThrough(k) ==
    /\ Len(submitted) >= k
    /\ IsPrefix(Flatten(SubSeq(submitted, 1, k)), played)

\* C18: while the output callback keeps being invoked with a frame of at
\* least one sample and update keeps running, every sample of every
\* submitted buffer is eventually written to an output frame.
C18_PlaybackLiveness ==
    \A k \in 1..MaxSubmits : (Len(submitted) >= k) ~> PlayedThrough(k)

\* C18 witness: two buffers were submitted, the second of two samples, and
\* all their samples have been played.
C18_Witness ==
    /\ Len(submitted) = 2 /\ Len(submitted[2]) = 2
    /\ played = Flatten(submitted)
    /\ out_buffer = <<>> /\ output_channel = <<>>

\* The values the Recording checkbox took, change by change: it starts
\* unchecked and every change flips it.
TogglesMade == [i \in 1..nToggles |-> i % 2 = 1]

\* The toggles the input callback has drained, tick by tick.
RECURSIVE TogglesSeen(_)
TogglesSeen(log) ==
    IF log = <<>> THEN <<>> ELSE Head(log).toggles \o TogglesSeen(Tail(log))

\* Every change made has been sent.
AllTogglesSent == ctlPc # "send_recording"

\* A step that is one invocation of the input callback.
InputTick == Len(delivered') = Len(delivered) + 1

\* C19: the input callback's flag is always a value the control thread's
\* flag held earlier (false at first); the callback takes the toggles in
\* the order they were made; from the first tick that starts after the
\* last toggle was sent its flag equals the control thread's, and stays so.
C19_FlagPropagation ==
    /\ [](/\ recording = (nToggles % 2 = 1)
          /\ TogglesSeen(delivered) \o input_rec_channel
               \o (IF AllTogglesSent THEN <<>> ELSE <<recording>>) = TogglesMade
          /\ in_recording = (IF TogglesSeen(delivered) = <<>> THEN FALSE
                             ELSE Last(TogglesSeen(delivered)))
          /\ (AllTogglesSent /\ input_rec_channel = <<>>) => in_recording = recording)
    /\ [][(InputTick /\ AllTogglesSent) => in_recording' = recording]_vars

\* C19 witness: three changes, taken by two ticks (one, then two at once);
\* nothing is pending and the two flags agree.
C19_Witness ==
    /\ nToggles = 3 /\ AllTogglesSent /\ input_rec_channel = <<>>
    /\ Len(delivered) = 2
    /\ delivered[1].toggles = <<TRUE>> /\ delivered[2].toggles = <<FALSE, TRUE>>
    /\ in_recording /\ recording

\* C20: Save appends the working buffer as a new last snapshot and leaves
\* the working buffer empty; Load i replaces the working buffer with a copy
\* of snapshot i and leaves the list unchanged; the list grows only by
\* Save, and an existing snapshot never changes.
C20_Snapshots ==
    /\ [][Save(SnapOps, SnapSnapshots) =>
            /\ buffers' = Append(buffers, buffer)
            /\ buffer' = <<>>]_vars
    /\ [][\A i \in 1..Len(buffers) : Load(i, SnapOps) =>
            /\ buffer' = buffers[i]
            /\ buffers' = buffers]_vars
    /\ [][buffers' # buffers =>
            /\ buffers' = Append(buffers, buffer)
            /\ buffer' = <<>>]_vars
    /\ [][IsPrefix(buffers, buffers')]_vars

\* C20 witness: a buffer built by two Sin clicks was saved and loaded back;
\* then it was saved again, and the two snapshots are equal.
C20_Witness ==
    /\ nOps = 5 /\ Len(buffers) = 2 /\ buffer = <<>>
    /\ buffers[1] = SinBuffer(SinBuffer(<<>>, 2, "0.1"), 2, "0.1")
    /\ buffers[2] = buffers[1]

=============================================================================
